---- MODULE Spec2Model ----
(***************************************************************************)
(* Model of the auto-show scrollbar plugin (src/main.ts): the document-    *)
(* level ScrollPlugin controller, the window timer queue it schedules on,  *)
(* the settings object it shares with the plugin, and the settings-tab     *)
(* handlers that write it.                                                 *)
(*                                                                         *)
(* Time is counted in abstract ticks standing for milliseconds.  A timer   *)
(* callback is delivered at its deadline: the clock does not pass a due    *)
(* timer, while scroll events and other tasks may still be handled at the  *)
(* same instant before it runs.                                            *)
(***************************************************************************)
EXTENDS Integers, FiniteSets, Sequences, TLC

\* ---- bounds ----
MaxTime == 3
MaxShowDelay == 2
MaxHideDelay == 2
MaxTimerId == 4
MaxEdits == 1

\* ---- the DOM and the inputs ----
Containers == {"a", "b"}
NoElement == "document"
Targets == Containers \cup {NoElement}
ShowDelays == {0, MaxShowDelay}
HideDelays == {1, MaxHideDelay}
\* a colour text is the sequence of its characters; null is a value that is no text
NoColor == <<"null">>
Red == <<"#", "f", "0", "0">>
Colors == {NoColor, Red}
DelayInputs(delays) == {[kind |-> "blank", n |-> 0], [kind |-> "word", n |-> 0]}
                          \cup {[kind |-> "decimal", n |-> i] : i \in {-1, 0} \cup delays}
ColorInputs == {<< >>, <<" ">>, Red, <<"z", "z", "z">>}
SettingsObjects == {1}

VARIABLES
    now,            \* the clock of the event loop
    settingsHeap,   \* contents of each ScrollbarSettings object
    pluginSettings, \* AutoShowScrollbarsPlugin.settings (a reference)
    ctrlSettings,   \* ScrollPlugin.settings (a reference)
    cls,            \* cls[c]: container c carries the class 'scrolling'
    timeouts,       \* ScrollPlugin.timeouts: container -> handle, 0 = no entry
    timers,         \* the window's live timers
    nextId,         \* the handle the next setTimeout returns
    listening,      \* the document 'scroll' listener is attached
    bodyClass,      \* body carries 'auto-hide-scrollbar'
    colorAttr,      \* body carries the attribute data-scrollbar-color
    colorVar,       \* the root property --custom-scrollbar-color
    savePending,    \* saveSettings calls suspended at 'await saveData'
    edits,          \* number of settings fields written by the settings tab so far
    destroyed,      \* destroy() has been called
    lastScroll,     \* history: time of the last handled scroll event per container
    burstStart,     \* history: time of the first scroll event of the current burst
    applied,        \* history: the delays at the last constructor/updateSettings call
    nonElementEvents, \* history: a scroll event whose target is not an Element was dispatched
    \* the per-container controller (the second ScrollPlugin of the repository),
    \* a record: settings (its settings), containers (its set 'containers'),
    \* listeners (the containers that carry its scroll listener), autoHide (the
    \* containers that carry 'auto-hide-scrollbar'), cls (cls[c]: container c
    \* carries 'scrolling'), timeouts (its map: container -> handle, 0 = no
    \* entry), timers (the live timers it scheduled), nextId (the handle the
    \* next setTimeout returns), styleVars (the root properties --scrollbar-width
    \* and --scrollbar-color are set), destroyed (destroy() has been called)
    pc

vars == << now, settingsHeap, pluginSettings, ctrlSettings, cls, timeouts, timers,
           nextId, listening, bodyClass, colorAttr, colorVar, savePending,
           edits, destroyed, lastScroll, burstStart, applied, nonElementEvents, pc >>

mainVars == << settingsHeap, pluginSettings, ctrlSettings, cls, timeouts, timers,
               nextId, listening, bodyClass, colorAttr, colorVar, savePending,
               edits, destroyed, lastScroll, burstStart, applied, nonElementEvents >>

progVars == << settingsHeap, pluginSettings, ctrlSettings, cls, timeouts, timers,
               nextId, listening, bodyClass, colorAttr, colorVar, savePending >>

\* the settings handleScroll reads: this.settings dereferenced
Settings == settingsHeap[ctrlSettings]

\* ---- window timers ----
Timer(id, kind, c, delay) ==
    [id |-> id, kind |-> kind, c |-> c, delay |-> delay, deadline |-> now + delay]

ClearTimeoutAll(ts, id) == {t \in ts : t.kind # "hide"}

ClearTimeoutLeak(ts, id) == ts

ClearTimeout(ts, id) == {t \in ts : t.id # id}

HideTimers(c) == {t \in timers : t.kind = "hide" /\ t.c = c}
ShowTimers(c) == {t \in timers : t.kind = "show" /\ t.c = c}

Due(t) == t.deadline <= now

\* A due timer may run next unless the timer queue puts another one before it:
\* a timer waits for every timer that was started earlier with an equal or
\* smaller delay.  All due timers have the current instant as deadline, so the
\* queue orders two of them exactly when they were started at the same instant
\* with the same delay, and then the one with the smaller handle runs first.
CanFire(t) ==
    /\ t \in timers
    /\ Due(t)
    /\ \A u \in timers :
          u.deadline = t.deadline /\ u.delay = t.delay => u.id >= t.id

\* ---- ScrollPlugin ----
ColorAttrAlways(s) == TRUE

ColorAttrOf(s) == s.color # NoColor
ColorVarOf(s) == s.color

ShowIsImmediateAlways(s) == TRUE

ShowIsImmediateNever(s) == FALSE

ShowIsImmediate(s) == ~(s.showDelay > 0)

HideDelayHideOnly(s) == s.hideDelay

HideDelayShowOnly(s) == s.showDelay

HideDelayOf(s) == s.hideDelay + s.showDelay

IsElementAlways(target) == TRUE

IsElement(target) == target \in Containers

\* the per-container controller before it is constructed
pc_Idle ==
    pc = [settings |-> [showDelay |-> 0, hideDelay |-> 1],
          containers |-> {},
          listeners |-> {},
          autoHide |-> {},
          cls |-> [c \in Containers |-> FALSE],
          timeouts |-> [c \in Containers |-> 0],
          timers |-> {},
          nextId |-> 1,
          styleVars |-> FALSE,
          destroyed |-> FALSE]

Init ==
    /\ now = 0
    /\ pc_Idle
    /\ \E sd \in ShowDelays, hd \in HideDelays, col \in Colors :
          /\ settingsHeap = [o \in SettingsObjects |->
                               [showDelay |-> sd, hideDelay |-> hd, color |-> col]]
          /\ applied = [showDelay |-> sd, hideDelay |-> hd]
          /\ colorAttr = (col # NoColor)
          /\ colorVar = col
    /\ pluginSettings = 1
    /\ ctrlSettings = 1
    /\ cls = [c \in Containers |-> FALSE]
    /\ timeouts = [c \in Targets |-> 0]
    /\ timers = {}
    /\ nextId = 1
    /\ listening = TRUE
    /\ bodyClass = TRUE
    /\ savePending = 0
    /\ edits = 0
    /\ destroyed = FALSE
    /\ lastScroll = [c \in Containers |-> -1]
    /\ burstStart = [c \in Containers |-> -1]
    /\ nonElementEvents = FALSE

\* handleScroll with a target that is absent or not an Element
handleScrollIgnored(target) ==
    /\ listening
    /\ ~IsElement(target)
    /\ nonElementEvents' = TRUE
    /\ UNCHANGED << now, progVars, edits, destroyed, lastScroll, burstStart, applied >>
    /\ UNCHANGED pc

handleScroll(container) ==
    /\ listening
    /\ IsElement(container)
    /\ nextId + 1 <= MaxTimerId
    /\ LET s == Settings
           timeoutId == timeouts[container]
           cleared == IF timeoutId # 0 THEN ClearTimeout(timers, timeoutId) ELSE timers
           immediate == ShowIsImmediate(s)
           showT == IF immediate THEN {}
                    ELSE {Timer(nextId, "show", container, s.showDelay)}
           newTimeoutId == IF immediate THEN nextId ELSE nextId + 1
           hideT == Timer(newTimeoutId, "hide", container, HideDelayOf(s))
       IN  /\ timers' = cleared \cup showT \cup {hideT}
           /\ cls' = IF immediate /\ container \in Containers
                    THEN [cls EXCEPT ![container] = TRUE] ELSE cls
           /\ timeouts' = [timeouts EXCEPT ![container] = newTimeoutId]
           /\ nextId' = newTimeoutId + 1
           /\ burstStart' = IF HideTimers(container) = {} /\ container \in Containers
                            THEN [burstStart EXCEPT ![container] = now]
                            ELSE burstStart
    /\ lastScroll' = IF container \in Containers
                     THEN [lastScroll EXCEPT ![container] = now] ELSE lastScroll
    /\ nonElementEvents' = (nonElementEvents \/ container \notin Containers)
    /\ UNCHANGED << now, settingsHeap, pluginSettings, ctrlSettings, listening, bodyClass,
                    colorAttr, colorVar, savePending, edits, destroyed, applied >>
    /\ UNCHANGED pc

\* the callback of the timer created at main.ts line 62
ShowCallback(t) ==
    /\ t.kind = "show"
    /\ CanFire(t)
    /\ timers' = timers \ {t}
    /\ cls' = IF t.c \in Containers THEN [cls EXCEPT ![t.c] = TRUE] ELSE cls
    /\ UNCHANGED << now, settingsHeap, pluginSettings, ctrlSettings, timeouts, nextId,
                    listening, bodyClass, colorAttr, colorVar, savePending, edits, destroyed,
                    lastScroll, burstStart, applied, nonElementEvents >>
    /\ UNCHANGED pc

\* the callback of the timer created at main.ts line 69
HideCallback(t) ==
    /\ t.kind = "hide"
    /\ CanFire(t)
    /\ timers' = timers \ {t}
    /\ cls' = IF t.c \in Containers THEN [cls EXCEPT ![t.c] = FALSE] ELSE cls
    /\ timeouts' = [timeouts EXCEPT ![t.c] = 0]
    /\ UNCHANGED << now, settingsHeap, pluginSettings, ctrlSettings, nextId,
                    listening, bodyClass, colorAttr, colorVar, savePending, edits, destroyed,
                    lastScroll, burstStart, applied, nonElementEvents >>
    /\ UNCHANGED pc

Tick ==
    /\ now < MaxTime
    /\ \A t \in timers : ~Due(t)
    /\ now' = now + 1
    /\ UNCHANGED << progVars, edits, destroyed, lastScroll, burstStart, applied, nonElementEvents >>
    /\ UNCHANGED pc

\* ---- settings tab and plugin ----
NaN == [nan |-> TRUE, n |-> 0]
Num(i) == [nan |-> FALSE, n |-> i]

\* Number(value) of a text input: a decimal text, the empty text (0) or a non-numeric text (NaN)
NumberOf(value) ==
    IF value.kind = "decimal" THEN Num(value.n)
    ELSE IF value.kind = "blank" THEN Num(0)
    ELSE NaN

isNaN(d) == d.nan

\* String.prototype.trim: the text without its leading and trailing blanks
RECURSIVE TrimStart(_)
TrimStart(value) ==
    IF value # << >> /\ Head(value) = " " THEN TrimStart(Tail(value)) ELSE value

RECURSIVE TrimEnd(_)
TrimEnd(value) ==
    IF value # << >> /\ value[Len(value)] = " "
    THEN TrimEnd(SubSeq(value, 1, Len(value) - 1)) ELSE value

Trim(value) == TrimEnd(TrimStart(value))

updateScrollbarColor(s) ==
    /\ colorAttr' = ColorAttrOf(s)
    /\ colorVar' = ColorVarOf(s)

\* saveSettings up to its 'await this.saveData(...)'
saveSettingsStart == savePending' = savePending + 1 /\ edits' = edits + 1

onChangeShowDelay(value) ==
    /\ ~destroyed
    /\ LET delay == NumberOf(value)
       IN  IF ~isNaN(delay) /\ delay.n >= 0
           THEN /\ edits < MaxEdits
                /\ settingsHeap' = [settingsHeap EXCEPT ![pluginSettings].showDelay = delay.n]
                /\ saveSettingsStart
           ELSE UNCHANGED << settingsHeap, savePending, edits >>
    /\ UNCHANGED << now, pluginSettings, ctrlSettings, cls, timeouts, timers, nextId,
                    listening, bodyClass, colorAttr, colorVar, destroyed,
                    lastScroll, burstStart, applied, nonElementEvents >>
    /\ UNCHANGED pc

onChangeHideDelay(value) ==
    /\ ~destroyed
    /\ LET delay == NumberOf(value)
       IN  IF ~isNaN(delay) /\ delay.n > 0
           THEN /\ edits < MaxEdits
                /\ settingsHeap' = [settingsHeap EXCEPT ![pluginSettings].hideDelay = delay.n]
                /\ saveSettingsStart
           ELSE UNCHANGED << settingsHeap, savePending, edits >>
    /\ UNCHANGED << now, pluginSettings, ctrlSettings, cls, timeouts, timers, nextId,
                    listening, bodyClass, colorAttr, colorVar, destroyed,
                    lastScroll, burstStart, applied, nonElementEvents >>
    /\ UNCHANGED pc

onChangeColor(value) ==
    /\ ~destroyed
    /\ edits < MaxEdits
    /\ settingsHeap' = [settingsHeap EXCEPT ![pluginSettings].color =
                           IF Trim(value) = << >> THEN NoColor ELSE value]
    /\ saveSettingsStart
    /\ UNCHANGED << now, pluginSettings, ctrlSettings, cls, timeouts, timers, nextId,
                    listening, bodyClass, colorAttr, colorVar, destroyed,
                    lastScroll, burstStart, applied, nonElementEvents >>
    /\ UNCHANGED pc

\* saveSettings after saveData has resolved: this.scrollPlugin.updateSettings(this.settings)
updateSettings ==
    /\ savePending > 0
    /\ savePending' = savePending - 1
    /\ ctrlSettings' = pluginSettings
    /\ updateScrollbarColor(settingsHeap[pluginSettings])
    /\ applied' = [showDelay |-> settingsHeap[pluginSettings].showDelay,
                   hideDelay |-> settingsHeap[pluginSettings].hideDelay]
    /\ UNCHANGED << now, settingsHeap, pluginSettings, cls, timeouts, timers, nextId,
                    listening, bodyClass, edits, destroyed, lastScroll, burstStart, nonElementEvents >>
    /\ UNCHANGED pc

\* the handles destroy() clears: those stored for the elements matching '.scrolling'
DestroyCleared(classes, handles) == {handles[c] : c \in {d \in Containers : classes[d]}} \ {0}

DestroyTimers(classes, handles, ts) == {t \in ts : t.id \notin DestroyCleared(classes, handles)}

DestroyClasses(classes) == [c \in Containers |-> FALSE]

destroy ==
    /\ destroyed' = TRUE
    /\ bodyClass' = FALSE
    /\ listening' = FALSE
    /\ cls' = DestroyClasses(cls)
    /\ timers' = DestroyTimers(cls, timeouts, timers)
    /\ colorAttr' = FALSE
    /\ colorVar' = NoColor
    /\ UNCHANGED << now, settingsHeap, pluginSettings, ctrlSettings, timeouts, nextId,
                    savePending, edits, lastScroll, burstStart, applied, nonElementEvents >>
    /\ UNCHANGED pc

\* ---- specifications ----
NextFixed ==
    \/ \E target \in Targets : handleScroll(target)
    \/ \E target \in Targets : handleScrollIgnored(target)
    \/ \E t \in timers : ShowCallback(t)
    \/ \E t \in timers : HideCallback(t)
    \/ Tick

\* the whole controller; handleScrollIgnored leaves every variable of the
\* program alone and is followed under NextFixed, where its history flag is kept
Next ==
    \/ \E target \in Targets : handleScroll(target)
    \/ \E t \in timers : ShowCallback(t)
    \/ \E t \in timers : HideCallback(t)
    \/ Tick
    \/ \E v \in DelayInputs(ShowDelays) : onChangeShowDelay(v)
    \/ \E v \in DelayInputs(HideDelays) : onChangeHideDelay(v)
    \/ \E v \in ColorInputs : onChangeColor(v)
    \/ updateSettings
    \/ destroy

\* the controller with its settings fixed and no teardown
SpecFixed == Init /\ [][NextFixed]_vars

Spec == Init /\ [][Next]_vars

\* ---- steps, recognised by what they change ----
ScrollStep(c) == nextId' > nextId /\ timeouts'[c] # timeouts[c]
UpdateSettingsStep == savePending' < savePending
NewTimers == timers' \ timers

\* ---- C1 ----
\* C1: once destroy() has returned no timer callback scheduled by handleScroll
\* runs any more: after teardown no timer leaves the queue by firing and no
\* container's 'scrolling' class is added or removed.
C1_NoCallbackAfterDestroy ==
    [][destroyed /\ ~destroy => timers' = timers /\ cls' = cls]_vars

C3_Debounce ==
    [][\A c \in Containers :
          /\ ScrollStep(c) /\ HideTimers(c) # {} =>
                /\ HideTimers(c)' \cap HideTimers(c) = {}
                /\ \E t \in HideTimers(c)' :
                      t.id = timeouts'[c] /\ t.id >= nextId /\ HideTimers(c)' = {t}
          /\ cls[c] /\ ~cls'[c] => now >= lastScroll[c] + Settings.hideDelay]_vars

\* a second scroll event arrived in a burst, the first event's hide deadline has
\* been reached, and the container is Active with a pending (replaced) hide timer
C3_Witness ==
    \E c \in Containers :
        /\ burstStart[c] >= 0
        /\ burstStart[c] < lastScroll[c]
        /\ now >= burstStart[c] + HideDelayOf(Settings)
        /\ cls[c]
        /\ HideTimers(c) # {}

\* ---- C4 ----
\* C4: while the controller is alive each container has at most one live hide
\* timer, and the handle stored for the container in timeouts is that timer's.
C4_OneHideTimer ==
    ~destroyed =>
        \A c \in Containers :
            /\ Cardinality(HideTimers(c)) <= 1
            /\ \A t \in HideTimers(c) : timeouts[c] = t.id

\* a container whose hide timer was replaced by a later scroll event and whose
\* deadline was computed from delays that have since been changed
C4_Witness ==
    /\ ~destroyed
    /\ \E c \in Containers : \E t \in HideTimers(c) :
          /\ burstStart[c] < lastScroll[c]
          /\ t.deadline # lastScroll[c] + HideDelayOf(Settings)

\* ---- C5 ----
\* C5: at any instant a container has at most one pending hide timer and, when
\* showDelay > 0, at most one pending show timer.
C5_BoundedTimers ==
    \A c \in Containers :
        /\ Cardinality(HideTimers(c)) <= 1
        /\ Settings.showDelay > 0 => Cardinality(ShowTimers(c)) <= 1

\* ---- C6 ----
\* C6: when showDelay = 0, a scroll event on an Idle container leaves it Active
\* in the very next state, and the event schedules no show timer.
C6_SynchronousShow ==
    [][\A c \in Containers :
          ScrollStep(c) /\ Settings.showDelay = 0 /\ ~cls[c] =>
              /\ cls'[c]
              /\ \A t \in NewTimers : t.kind = "hide"]_vars

\* the state right after a scroll event handled with showDelay = 0: the container
\* is Active, its hide timer is the newest timer, and it has no show timer
C6_Witness ==
    /\ Settings.showDelay = 0
    /\ \E c \in Containers :
          /\ lastScroll[c] = now
          /\ cls[c]
          /\ timeouts[c] = nextId - 1
          /\ \E t \in HideTimers(c) : t.deadline = now + Settings.hideDelay
          /\ ShowTimers(c) = {}

\* ---- C7 ----
\* C7: when showDelay = S > 0, a container is not Active earlier than S after the
\* first scroll event of its burst, and it goes from Active to Idle only when at
\* least hideDelay has passed since its last scroll event.
C7_DelayedShow ==
    /\ [](Settings.showDelay > 0 =>
             \A c \in Containers :
                 cls[c] => burstStart[c] >= 0 /\ now >= burstStart[c] + Settings.showDelay)
    /\ [][Settings.showDelay > 0 =>
             \A c \in Containers :
                 cls[c] /\ ~cls'[c] => now >= lastScroll[c] + Settings.hideDelay]_vars

\* showDelay > 0 and a container that became Active during a burst of scroll
\* events at two instants and is still Active after the last of them
C7_Witness ==
    /\ Settings.showDelay > 0
    /\ \E c \in Containers :
          /\ cls[c]
          /\ burstStart[c] >= 0
          /\ burstStart[c] < lastScroll[c]
          /\ now > lastScroll[c]

\* ---- C8 ----
\* C8: updateSettings leaves every pending timer and its deadline as it is, and
\* the timers a scroll event schedules use the delays of the settings last
\* handed to the controller (by its constructor or by updateSettings).
C8_NoReschedule ==
    [][/\ UpdateSettingsStep => timers' = timers
       /\ \A c \in Containers : ScrollStep(c) =>
              \A t \in NewTimers :
                  t.deadline = now + (IF t.kind = "show" THEN applied.showDelay
                                      ELSE applied.hideDelay + applied.showDelay)]_vars

\* ---- C9 ----
\* C9: destroy() ends in the torn-down state (listener removed, no pending timer,
\* no container with the 'scrolling' class, no style variable or attribute), and
\* calling it again in that state changes nothing.
C9_IdempotentDestroy ==
    [][destroy =>
          /\ ~listening' /\ ~bodyClass'
          /\ timers' = {}
          /\ \A c \in Containers : ~cls'[c]
          /\ ~colorAttr' /\ colorVar' = NoColor
          /\ DestroyTimers(cls', timeouts', timers') = timers'
          /\ DestroyClasses(cls') = cls']_vars

\* ---- C10 ----
\* C10: the showDelay and hideDelay that handleScroll reads change only in a
\* step in which updateSettings is called.
C10_SettingsSnapshot ==
    [][Settings'.showDelay # Settings.showDelay \/ Settings'.hideDelay # Settings.hideDelay
          => UpdateSettingsStep]_vars

\* ---- C11 ----
\* C11: a scroll event whose target is absent or not an Element is ignored: the
\* step that handles the first such event changes nothing of the program, and in
\* no state is a timer scheduled for such a target or a handle stored for it.
C11_NonElementIgnored ==
    /\ [](\A t \in timers : t.c \in Containers)
    /\ [](timeouts[NoElement] = 0)
    /\ [][~nonElementEvents /\ nonElementEvents' => UNCHANGED progVars]_vars

\* a non-Element scroll event was dispatched while a container was Active with
\* its hide timer pending and stored
C11_Witness ==
    /\ nonElementEvents
    /\ listening
    /\ \E c \in Containers : cls[c] /\ HideTimers(c) # {} /\ timeouts[c] # 0

\* ---- C12 ----
HexDigits == {"0", "1", "2", "3", "4", "5", "6", "7", "8", "9",
              "a", "b", "c", "d", "e", "f", "A", "B", "C", "D", "E", "F"}

\* a text matching ^#([A-Fa-f0-9]{6}|[A-Fa-f0-9]{3})$
IsHexColor(value) ==
    /\ Len(value) \in {4, 7}
    /\ value[1] = "#"
    /\ \A i \in 2..Len(value) : value[i] \in HexDigits

SettingsValid(s) ==
    /\ s.showDelay >= 0
    /\ s.hideDelay > 0
    /\ s.color = NoColor \/ IsHexColor(s.color)

\* C12: an input that is invalid for its control changes no stored field and
\* starts no saveSettings: every step that writes the settings object or starts a
\* save leaves showDelay >= 0, hideDelay > 0 and a colour that is unset or a hex
\* string of 3 or 6 digits after '#'.
C12_InvalidInputRejected ==
    [][settingsHeap' # settingsHeap \/ savePending' > savePending
          => SettingsValid(settingsHeap'[pluginSettings])]_vars

\* ---------------------------------------------------------------------------
\* The per-container controller: it registers every scroll container, puts a
\* listener on each and keeps one map entry per container.
\* ---------------------------------------------------------------------------

\* the main controller, parked while the per-container controller is studied
main_Idle ==
    /\ settingsHeap = [o \in SettingsObjects |->
                         [showDelay |-> 0, hideDelay |-> 1, color |-> NoColor]]
    /\ applied = [showDelay |-> 0, hideDelay |-> 1]
    /\ colorAttr = FALSE
    /\ colorVar = NoColor
    /\ pluginSettings = 1
    /\ ctrlSettings = 1
    /\ cls = [c \in Containers |-> FALSE]
    /\ timeouts = [c \in Targets |-> 0]
    /\ timers = {}
    /\ nextId = 1
    /\ listening = TRUE
    /\ bodyClass = TRUE
    /\ savePending = 0
    /\ edits = 0
    /\ destroyed = FALSE
    /\ lastScroll = [c \in Containers |-> -1]
    /\ burstStart = [c \in Containers |-> -1]
    /\ nonElementEvents = FALSE

\* the state after new ScrollPlugin(workspace, settings): initForWorkspace has
\* set the style properties and added every content container of every leaf
pc_Init ==
    /\ now = 0
    /\ main_Idle
    /\ \E sd \in ShowDelays, hd \in HideDelays :
          pc = [settings |-> [showDelay |-> sd, hideDelay |-> hd],
                containers |-> Containers,
                listeners |-> Containers,
                autoHide |-> Containers,
                cls |-> [c \in Containers |-> FALSE],
                timeouts |-> [c \in Containers |-> 0],
                timers |-> {},
                nextId |-> 1,
                styleVars |-> TRUE,
                destroyed |-> FALSE]

\* handleScroll of the per-container controller: the stored handle is
\* cancelled, the show is always a timer, the hide timer is stored
pc_handleScroll(container) ==
    /\ container \in pc.listeners
    /\ pc.nextId + 1 <= MaxTimerId + MaxTimerId
    /\ LET cleared == IF pc.timeouts[container] # 0
                      THEN ClearTimeout(pc.timers, pc.timeouts[container])
                      ELSE pc.timers
           show == Timer(pc.nextId, "show", container, pc.settings.showDelay)
           hide == Timer(pc.nextId + 1, "hide", container,
                         pc.settings.hideDelay + pc.settings.showDelay)
       IN pc' = [pc EXCEPT !.timers = cleared \cup {show, hide},
                           !.timeouts[container] = pc.nextId + 1,
                           !.nextId = pc.nextId + 2]
    /\ UNCHANGED << now, mainVars >>

\* the same timer queue, for the timers of the per-container controller
pc_CanFire(t) ==
    /\ t \in pc.timers
    /\ Due(t)
    /\ \A u \in pc.timers :
          u.deadline = t.deadline /\ u.delay = t.delay => u.id >= t.id

\* the show callback: adds the class 'scrolling'
pc_ShowCallback(t) ==
    /\ pc_CanFire(t)
    /\ t.kind = "show"
    /\ pc' = [pc EXCEPT !.timers = pc.timers \ {t}, !.cls[t.c] = TRUE]
    /\ UNCHANGED << now, mainVars >>

\* the hide callback: removes the class 'scrolling'; the map entry stays
pc_HideCallback(t) ==
    /\ pc_CanFire(t)
    /\ t.kind = "hide"
    /\ pc' = [pc EXCEPT !.timers = pc.timers \ {t}, !.cls[t.c] = FALSE]
    /\ UNCHANGED << now, mainVars >>

\* time passes when no timer of the per-container controller is due
pc_Tick ==
    /\ now < MaxTime
    /\ \A t \in pc.timers : ~Due(t)
    /\ now' = now + 1
    /\ UNCHANGED << mainVars, pc >>

\* a delay field of the settings tab is edited to a valid value: the shared
\* settings object changes and updateSettings runs updateStyles, which sets
\* both root properties
pc_updateSettings(sd, hd) ==
    /\ pc.settings # [showDelay |-> sd, hideDelay |-> hd]
    /\ pc' = [pc EXCEPT !.settings = [showDelay |-> sd, hideDelay |-> hd],
                        !.styleVars = TRUE]
    /\ UNCHANGED << now, mainVars >>

\* destroy of the per-container controller: for every registered container
\* the listener and 'auto-hide-scrollbar' are removed and the stored (hide)
\* handle is cancelled; then both collections are cleared
pc_destroy ==
    /\ pc' = [pc EXCEPT
                !.listeners = pc.listeners \ pc.containers,
                !.autoHide = pc.autoHide \ pc.containers,
                !.timers = {t \in pc.timers :
                               ~\E c \in pc.containers :
                                   pc.timeouts[c] # 0 /\ t.id = pc.timeouts[c]},
                !.containers = {},
                !.timeouts = [c \in Containers |-> 0],
                !.destroyed = TRUE]
    /\ UNCHANGED << now, mainVars >>

NextPerContainer ==
    \/ \E c \in Containers : pc_handleScroll(c)
    \/ \E t \in pc.timers : pc_ShowCallback(t)
    \/ \E t \in pc.timers : pc_HideCallback(t)
    \/ pc_Tick
    \/ \E sd \in ShowDelays, hd \in HideDelays : pc_updateSettings(sd, hd)
    \/ pc_destroy

SpecPerContainer == pc_Init /\ [][NextPerContainer]_vars

\* C13: after destroy() of the per-container controller no registered
\* container keeps its listener, no show or hide timer is pending, no
\* container carries 'scrolling', and the style properties are removed.
C13_PerContainerDestroyCleans ==
    pc.destroyed =>
        /\ pc.listeners = {}
        /\ pc.timers = {}
        /\ \A c \in Containers : ~pc.cls[c]
        /\ ~pc.styleVars

\* ---- C14 ----
\* C14: with fixed settings a scroll event at time t on container c schedules
\* the show at t + showDelay (it is done at t itself when showDelay = 0) and
\* the hide at t + showDelay + hideDelay; the container goes Idle only at the
\* instant t_last + showDelay + hideDelay, t_last being its last scroll event,
\* is Active between t_last + showDelay and that instant, and is Idle after it.
C14_ExactDeadlines ==
    /\ [][\A c \in Containers : ScrollStep(c) =>
             /\ IF Settings.showDelay = 0
                THEN cls'[c] /\ ShowTimers(c)' = ShowTimers(c)
                ELSE \E t \in NewTimers :
                        /\ t.kind = "show" /\ t.c = c
                        /\ t.deadline = now + Settings.showDelay
             /\ \E t \in NewTimers :
                   /\ t.kind = "hide" /\ t.c = c
                   /\ t.deadline = now + Settings.showDelay + Settings.hideDelay
                   /\ HideTimers(c)' = {t}]_vars
    /\ [][\A c \in Containers :
             cls[c] /\ ~cls'[c] =>
                now = lastScroll[c] + Settings.showDelay + Settings.hideDelay]_vars
    /\ [](\A c \in Containers :
             lastScroll[c] >= 0 =>
                /\ now > lastScroll[c] + Settings.showDelay + Settings.hideDelay => ~cls[c]
                /\ /\ now > lastScroll[c] + Settings.showDelay
                   /\ now < lastScroll[c] + Settings.showDelay + Settings.hideDelay
                   => cls[c])

\* two scroll events at different instants; the container is Idle, its hide
\* timer fired at the second event's deadline, which is later than the first
\* event's deadline
C14_Witness ==
    \E c \in Containers :
        /\ burstStart[c] >= 0
        /\ burstStart[c] < lastScroll[c]
        /\ burstStart[c] + Settings.showDelay + Settings.hideDelay < now
        /\ now = lastScroll[c] + Settings.showDelay + Settings.hideDelay
        /\ ~cls[c]
        /\ HideTimers(c) = {}
        /\ timeouts[c] = 0

\* ---- C15 ----
\* C15: with showDelay > 0 the hide timer scheduled by a scroll event never
\* fires while the show timer scheduled by the same event is still pending, and
\* a container that became Active (at the first show of its burst) goes Idle no
\* earlier than hideDelay after that instant.
C15_ShowBeforeHide ==
    [][Settings.showDelay > 0 =>
          /\ \A t \in timers :
                /\ t.kind = "hide"
                /\ timers' = timers \ {t}
                /\ nextId' = nextId
                => ~\E u \in timers : u.kind = "show" /\ u.c = t.c /\ u.id = t.id - 1
          /\ \A c \in Containers :
                /\ ~cls[c] /\ cls'[c] => now = burstStart[c] + Settings.showDelay
                /\ cls[c] /\ ~cls'[c] =>
                      now >= burstStart[c] + Settings.showDelay + Settings.hideDelay]_vars

\* showDelay > 0: a container was scrolled, became Active when its show timer
\* fired, and its hide timer has then fired
C15_Witness ==
    /\ Settings.showDelay > 0
    /\ \E c \in Containers :
          /\ burstStart[c] >= 0
          /\ now >= burstStart[c] + Settings.showDelay + Settings.hideDelay
          /\ ~cls[c]
          /\ ShowTimers(c) = {}
          /\ HideTimers(c) = {}
          /\ timeouts[c] = 0

\* ---- C16 ----
\* C16: a container's entry in timeouts is created or replaced, with a fresh
\* handle, by every scroll event on it; it is deleted when the container's hide
\* timer fires; and after destroy() the map holds no handle for any container.
C16_TimeoutsLifecycle ==
    /\ [][\A c \in Containers :
             /\ nextId' > nextId /\ lastScroll'[c] # lastScroll[c] =>
                   timeouts'[c] >= nextId /\ timeouts'[c] # timeouts[c]
             /\ (\E t \in HideTimers(c) : timers' = timers \ {t} /\ nextId' = nextId /\ ~destroy)
                   => timeouts'[c] = 0]_vars
    /\ [](destroyed => \A c \in Containers : timeouts[c] = 0)

\* ---- C17 ----
\* C17: after construction and after every updateSettings(s) the attribute
\* data-scrollbar-color is set exactly when s.color is non-empty and the
\* variable --custom-scrollbar-color then equals s.color (it is absent
\* otherwise), whatever was set before; destroy() removes both.
C17_StyleIsFunctionOfSettings ==
    /\ colorAttr = (Settings.color # NoColor)
    /\ colorVar = Settings.color
    /\ [][UpdateSettingsStep =>
             /\ colorAttr' = (settingsHeap'[ctrlSettings'].color # NoColor)
             /\ colorVar' = settingsHeap'[ctrlSettings'].color]_vars
    /\ [][destroy => ~colorAttr' /\ colorVar' = NoColor]_vars

\* a colour typed in the settings tab has been applied by updateSettings, and
\* no save is in flight
C17_Witness ==
    /\ ~destroyed
    /\ savePending = 0
    /\ edits > 0
    /\ colorAttr
    /\ colorVar = <<"z", "z", "z">>

\* ---- C18 ----
\* C18: a scroll event on container a, and the callback of any timer scheduled
\* for a, leaves the 'scrolling' class, the stored handle and the pending
\* timers of every other container b as they were.
C18_ContainersIndependent ==
    [][\A a \in Containers :
          \/ handleScroll(a)
          \/ \E t \in timers : t.c = a /\ (ShowCallback(t) \/ HideCallback(t))
          => \A b \in Containers \ {a} :
                /\ cls'[b] = cls[b]
                /\ timeouts'[b] = timeouts[b]
                /\ HideTimers(b)' = HideTimers(b)
                /\ ShowTimers(b)' = ShowTimers(b)]_vars

\* container b is Active with its hide timer pending and stored, and container
\* a was scrolled after b's last scroll event and has had its hide timer fire
C18_Witness ==
    \E a \in Containers : \E b \in Containers \ {a} :
        /\ lastScroll[b] >= 0
        /\ lastScroll[a] > lastScroll[b]
        /\ ~cls[a] /\ timeouts[a] = 0 /\ HideTimers(a) = {}
        /\ cls[b] /\ timeouts[b] # 0 /\ HideTimers(b) # {}

\* ---- C19 ----
\* C19: while the controller is alive no show callback runs for a container
\* that has no pending hide timer (such a container would become Active with
\* nothing left to make it Idle again).
C19_NoShowWithoutHide ==
    [][\A t \in timers :
          ~destroyed /\ ShowCallback(t) => HideTimers(t.c) # {}]_vars

\* ---- C20 ----
\* C20: in every state after destroy() the attribute data-scrollbar-color is
\* absent and the variable --custom-scrollbar-color is unset, also when a
\* saveSettings that was suspended at saveData completes after the teardown.
C20_TeardownWinsOverSave ==
    destroyed => ~colorAttr /\ colorVar = NoColor

====
